---- MODULE Spec2Model ----
(***************************************************************************)
(* Model of src/page/content.rs: the Content cell of a page, which is     *)
(* either Dynamic (title, body, an sse::BufferedServer of listeners) or   *)
(* Static (content type, raw bytes), together with the contract of the    *)
(* subscriber fan-out (sse::BufferedServer) the cell drives.              *)
(*                                                                         *)
(* One writer issues the operations one at a time (the cell takes         *)
(* &mut self).  An operation is split only where the code awaits a send   *)
(* to the fan-out, which can suspend on a full per-sink queue.            *)
(***************************************************************************)
EXTENDS Integers, Sequences, FiniteSets, TLC

\* ---------------------------------------------------------------- bounds
MaxOps == 3           \* operations the writer issues in one behaviour
MaxSubs == 2          \* channels ever handed out by update_stream

\* ------------------------------------------------------ program constants
UPDATE_BUFFER_SIZE == 1

\* ------------------------------------------------------------ input sets
Strings == {"", "x", "y"}                       \* titles and bodies
\* the <<content_type, raw_contents>> pairs set_static is called with:
\* content_type is None (<<>>) or Some (<<t>>), raw_contents a byte sequence
StaticArgs == {<<<<>>, <<>>>>, <<<<"text/css">>, <<>>>>, <<<<"text/css">>, <<1>>>>}
Subs == 1..MaxSubs

VARIABLES
    content,    \* the Content enum value
    nServers,   \* number of sse::BufferedServer values created so far
    fanout,     \* fanout[s]: the server channel s was added to (0: none yet)
    closed,     \* channels whose receiving side has gone away
    queue,      \* queue[s]: frames buffered for sink s, at most UPDATE_BUFFER_SIZE
    stream,     \* stream[s]: frames written to the response body of s
    call,       \* the operation in progress (or the last one, pc = "done")
    pending,    \* sinks the send in progress has not yet reached
    emitted,    \* history: every frame given to a server, with the server
    joined,     \* history: joined[s] = cell state when s was added
    lastStatic, \* history: <<content_type, raw_contents, overwritten>> of the
                \* most recent set_static, overwritten by a later set_title/set_body
    ret,        \* value returned by the last operation
    nops        \* operations issued

vars == <<content, nServers, fanout, closed, queue, stream, call,
          pending, emitted, joined, lastStatic, ret, nops>>

\* ---------------------------------------------------------------- events
\* EventBuilder::new(data).event_type(t).build()
Event(data, type) == [event_type |-> type, data |-> data]

\* A heartbeat sent as a refresh event.
Heartbeat_AsRefresh == [event_type |-> "refresh", data |-> "."]

\* updates.send_heartbeat(): the keep-alive frame, which has no event type
Heartbeat == [event_type |-> "", data |-> ""]

\* Content::Dynamic{title, body, updates}
Dynamic(t, b, u) == [tag |-> "Dynamic", title |-> t, body |-> b, updates |-> u]

\* Content::Static{content_type, raw_contents}
Static(ct, raw) == [tag |-> "Static", content_type |-> ct, raw_contents |-> raw]

\* ------------------------------------------------- event construction
\* An update_stream whose test of the title is inverted.
title_event_Inverted(title) ==
    IF title = "" THEN Event(title, "title") ELSE Event(".", "clear-title")

\* update_stream: title_event
title_event(title) ==
    IF title # "" THEN Event(title, "title") ELSE Event(".", "clear-title")

\* update_stream: body_event
body_event(body) ==
    IF body # "" THEN Event(body, "body") ELSE Event(".", "clear-body")

\* A set_title that has no clear event: it sends the empty title as it is.
SetTitleEvent_NoClear(new_title) == Event(new_title, "title")

\* set_title: event
SetTitleEvent(new_title) ==
    IF new_title # "" THEN Event(new_title, "title") ELSE Event(".", "clear-title")

\* A set_body whose event was copied from set_title and not renamed.
SetBodyEvent_AsTitle(new_body) ==
    IF new_body # "" THEN Event(new_body, "title") ELSE Event(".", "clear-title")

\* set_body: event
SetBodyEvent(new_body) ==
    IF new_body # "" THEN Event(new_body, "body") ELSE Event(".", "clear-body")

\* A refresh whose event is named reload.
RefreshEvent_Reload == Event(".", "reload")

\* refresh: event
RefreshEvent == Event(".", "refresh")

\* ------------------------------------------------------------- fan-out
\* The sinks registered with server g that are still open.
Clients(g) == {s \in Subs : fanout[s] = g /\ s \notin closed}

\* updates.connections()
connections(g) == Cardinality(Clients(g))

\* The channel Body::channel() creates next: the lowest one not yet used.
Unused == {s \in Subs : fanout[s] = 0}
NewChannel == CHOOSE s \in Unused : \A t \in Unused : s <= t

\* ------------------------------------------------------- initial state
NoCall == [op |-> "new", arg |-> <<>>, pc |-> "done", next |-> "done",
           local |-> <<>>, ev |-> Heartbeat, pre |-> Dynamic("", "", 1), from |-> 0,
           preCount |-> 0, iters |-> 0,
           prev |-> [op |-> "none", arg |-> <<>>, from |-> 0,
                     pre |-> Dynamic("", "", 1)]]

\* Content::new()
Init ==
    /\ content = Dynamic("", "", 1)
    /\ nServers = 1
    /\ fanout = [s \in Subs |-> 0]
    /\ closed = {}
    /\ queue = [s \in Subs |-> <<>>]
    /\ stream = [s \in Subs |-> <<>>]
    /\ call = NoCall
    /\ pending = {}
    /\ emitted = <<>>
    /\ joined = [s \in Subs |-> <<>>]
    /\ lastStatic = <<>>
    /\ ret = <<"new">>
    /\ nops = 0

\* The writer may issue its next operation.
Idle == call.pc = "done" /\ nops < MaxOps

\* The record of a call of op(arg) entered in the current state.
Enter(op, arg) ==
    [op |-> op, arg |-> arg, pc |-> "done", next |-> "done", local |-> <<>>,
     ev |-> Heartbeat,
     pre |-> content, from |-> Len(emitted),
     preCount |-> IF content.tag = "Dynamic" THEN connections(content.updates) ELSE 0,
     iters |-> 0,
     prev |-> [op |-> call.op, arg |-> call.arg, from |-> call.from,
               pre |-> call.pre]]

\* History: the last set_static, once a set_title or set_body has been called.
Overwritten(ls) == IF ls = <<>> THEN ls ELSE <<ls[1], ls[2], TRUE>>

\* A Content::new that takes over the server created last.
new_ReusesServer(g) == Dynamic("", "", g - 1)

\* Content::new(): an empty dynamic page on a server of its own, server g
new(g) == Dynamic("", "", g)

\* A set_title that sends its event whether or not the title changes.
TitleChanged_Always(new_title, title) == TRUE

\* set_title: new_title != *title
TitleChanged(new_title, title) == new_title # title

\* A set_body that skips the update when the page has no listener.
BodyChanged_IfListeners(new_body, body) ==
    new_body # body /\ content.tag = "Dynamic" /\ Clients(content.updates) # {}

\* set_body: new_body != *body
BodyChanged(new_body, body) == new_body # body

\* A send that is started and not awaited: the caller goes on at once.
BeginSend_NotAwaited(g, targets, ev, c) ==
    /\ emitted' = Append(emitted, [server |-> g, ev |-> ev])
    /\ pending' = targets
    /\ call' = [c EXCEPT !.ev = ev, !.pc = c.next]

\* updates.send_to_clients(ev) on server g: ev is given to the server and is
\* owed to every sink in targets; the caller c resumes at c.next once every
\* one of them has taken it (at once if there is none).
BeginSend(g, targets, ev, c) ==
    /\ emitted' = Append(emitted, [server |-> g, ev |-> ev])
    /\ pending' = targets
    /\ call' = [c EXCEPT !.ev = ev,
                         !.pc = IF targets = {} THEN c.next ELSE "send"]

\* The call once the send in progress is owed to the sinks p only.
Resume(p) ==
    IF call.pc = "send" /\ p = {} THEN [call EXCEPT !.pc = call.next] ELSE call

\* ------------------------------------------------------------ set_title
\* A set_title whose Static arm does not replace the content.
SetTitleIter_NoConversion(c) ==
    LET new_title == c.arg[1]
        d == [c EXCEPT !.iters = @ + 1, !.next = "done"]
    IN  IF content.tag = "Dynamic"
        THEN IF TitleChanged(new_title, content.title)
             THEN /\ content' = [content EXCEPT !.title = new_title]
                  /\ BeginSend(content.updates, Clients(content.updates),
                               SetTitleEvent(new_title), d)
                  /\ UNCHANGED nServers
             ELSE /\ call' = [d EXCEPT !.pc = "done"]
                  /\ UNCHANGED <<content, nServers, emitted, pending>>
        ELSE /\ call' = [d EXCEPT !.pc = "loop"]
             /\ UNCHANGED <<content, nServers, emitted, pending>>

\* One iteration of set_title's loop, for the call c.
SetTitleIter(c) ==
    LET new_title == c.arg[1]
        d == [c EXCEPT !.iters = @ + 1, !.next = "done"]
    IN  IF content.tag = "Dynamic"
        THEN IF TitleChanged(new_title, content.title)
             THEN /\ content' = [content EXCEPT !.title = new_title]
                  /\ BeginSend(content.updates, Clients(content.updates),
                               SetTitleEvent(new_title), d)
                  /\ UNCHANGED nServers
             ELSE /\ call' = [d EXCEPT !.pc = "done"]
                  /\ UNCHANGED <<content, nServers, emitted, pending>>
        ELSE /\ content' = new(nServers + 1)
             /\ nServers' = nServers + 1
             /\ call' = [d EXCEPT !.pc = "loop"]
             /\ UNCHANGED <<emitted, pending>>

set_title(new_title) ==
    /\ Idle
    /\ SetTitleIter(Enter("set_title", <<new_title>>))
    /\ nops' = nops + 1
    /\ ret' = <<"unit">>
    /\ lastStatic' = Overwritten(lastStatic)
    /\ UNCHANGED <<fanout, closed, queue, stream, joined>>

set_title_loop ==
    /\ call.op = "set_title" /\ call.pc = "loop"
    /\ SetTitleIter(call)
    /\ UNCHANGED <<fanout, closed, queue, stream, joined, lastStatic, ret, nops>>

\* ------------------------------------------------------------- set_body
\* One iteration of set_body's loop, for the call c.
SetBodyIter(c) ==
    LET new_body == c.arg[1]
        d == [c EXCEPT !.iters = @ + 1, !.next = "done"]
    IN  IF content.tag = "Dynamic"
        THEN IF BodyChanged(new_body, content.body)
             THEN /\ content' = [content EXCEPT !.body = new_body]
                  /\ BeginSend(content.updates, Clients(content.updates),
                               SetBodyEvent(new_body), d)
                  /\ UNCHANGED nServers
             ELSE /\ call' = [d EXCEPT !.pc = "done"]
                  /\ UNCHANGED <<content, nServers, emitted, pending>>
        ELSE /\ content' = new(nServers + 1)
             /\ nServers' = nServers + 1
             /\ call' = [d EXCEPT !.pc = "loop"]
             /\ UNCHANGED <<emitted, pending>>

set_body(new_body) ==
    /\ Idle
    /\ SetBodyIter(Enter("set_body", <<new_body>>))
    /\ nops' = nops + 1
    /\ ret' = <<"unit">>
    /\ lastStatic' = Overwritten(lastStatic)
    /\ UNCHANGED <<fanout, closed, queue, stream, joined>>

set_body_loop ==
    /\ call.op = "set_body" /\ call.pc = "loop"
    /\ SetBodyIter(call)
    /\ UNCHANGED <<fanout, closed, queue, stream, joined, lastStatic, ret, nops>>

\* -------------------------------------------------------- update_stream
\* An update_stream that sends the body event first.
PrimingEvents_BodyFirst(title, body) == <<body_event(body), title_event(title)>>

\* update_stream: the two events it sends, in the order it sends them
PrimingEvents(title, body) == <<title_event(title), body_event(body)>>

\* Channels whose Body update_stream has returned to its caller.
Handed ==
    {s \in Subs : fanout[s] # 0}
        \ (IF call.op = "update_stream" /\ call.pc # "done" /\ call.local # <<>>
           THEN {call.local[1]} ELSE {})

\* An update_stream that makes a static page dynamic, as set_title does.
StreamOfStatic_Converts(c) ==
    /\ call' = c
    /\ ret' = <<"None">>
    /\ content' = new(nServers + 1)
    /\ nServers' = nServers + 1
    /\ UNCHANGED <<fanout, joined, emitted, pending>>

\* update_stream on a static page, for the call c: None
StreamOfStatic(c) ==
    /\ call' = c
    /\ ret' = <<"None">>
    /\ UNCHANGED <<content, nServers, fanout, joined, emitted, pending>>

\* An update_stream that sends the title event to the new client only.
update_stream_TitleToNewOnly ==
    /\ Idle
    /\ content.tag = "Dynamic" => Unused # {}
    /\ nops' = nops + 1
    /\ IF content.tag = "Dynamic"
       THEN LET s == NewChannel
                g == content.updates
                evs == PrimingEvents(content.title, content.body)
                c == [Enter("update_stream", <<>>) EXCEPT
                          !.local = <<s, evs[2]>>, !.next = "send_body"]
            IN  /\ fanout' = [fanout EXCEPT ![s] = g]
                /\ joined' = [joined EXCEPT ![s] =
                                 <<content.title, content.body, Len(emitted)>>]
                /\ BeginSend(g, {s}, evs[1], c)
                /\ ret' = <<"Some", s>>
                /\ UNCHANGED <<content, nServers>>
       ELSE StreamOfStatic(Enter("update_stream", <<>>))
    /\ UNCHANGED <<closed, queue, stream, lastStatic>>

update_stream ==
    /\ Idle
    /\ content.tag = "Dynamic" => Unused # {}
    /\ nops' = nops + 1
    /\ IF content.tag = "Dynamic"
       THEN LET s == NewChannel
                g == content.updates
                evs == PrimingEvents(content.title, content.body)
                c == [Enter("update_stream", <<>>) EXCEPT
                          !.local = <<s, evs[2]>>, !.next = "send_body"]
            IN  /\ fanout' = [fanout EXCEPT ![s] = g]
                /\ joined' = [joined EXCEPT ![s] =
                                 <<content.title, content.body, Len(emitted)>>]
                /\ BeginSend(g, Clients(g) \cup {s}, evs[1], c)
                /\ ret' = <<"Some", s>>
                /\ UNCHANGED <<content, nServers>>
       ELSE StreamOfStatic(Enter("update_stream", <<>>))
    /\ UNCHANGED <<closed, queue, stream, lastStatic>>

\* update_stream resumes after its first send: the second one
update_stream_body ==
    /\ call.op = "update_stream" /\ call.pc = "send_body"
    /\ BeginSend(content.updates, Clients(content.updates), call.local[2],
                 [call EXCEPT !.next = "done"])
    /\ UNCHANGED <<content, nServers, fanout, closed, queue, stream, joined,
                   lastStatic, ret, nops>>

\* ------------------------------------------------------- send_heartbeat
send_heartbeat ==
    /\ Idle
    /\ nops' = nops + 1
    /\ IF content.tag = "Dynamic"
       THEN /\ BeginSend(content.updates, Clients(content.updates), Heartbeat,
                         Enter("send_heartbeat", <<>>))
            /\ ret' = <<"Some", connections(content.updates)>>
       ELSE /\ call' = Enter("send_heartbeat", <<>>)
            /\ ret' = <<"None">>
            /\ UNCHANGED <<emitted, pending>>
    /\ UNCHANGED <<content, nServers, fanout, closed, queue, stream, joined,
                   lastStatic>>

\* -------------------------------------------------------------- refresh
\* refresh on the content value page, for the call c
Refresh(page, c) ==
    IF page.tag = "Dynamic"
    THEN BeginSend(page.updates, Clients(page.updates), RefreshEvent, c)
    ELSE call' = c /\ UNCHANGED <<emitted, pending>>

refresh ==
    /\ Idle
    /\ nops' = nops + 1
    /\ Refresh(content, Enter("refresh", <<>>))
    /\ ret' = <<"unit">>
    /\ UNCHANGED <<content, nServers, fanout, closed, queue, stream, joined,
                   lastStatic>>

\* ----------------------------------------------------------- set_static
\* A set_static that leaves out the swap.
swap_Missing(page, self) == <<page, self>>

\* mem::swap(&mut page, self): the new <<page, self>>
swap(page, self) == <<self, page>>

set_static(content_type, raw_contents) ==
    /\ Idle
    /\ nops' = nops + 1
    /\ LET swapped == swap(Static(content_type, raw_contents), content)
       IN  /\ content' = swapped[2]
           /\ Refresh(swapped[1],
                      Enter("set_static", <<content_type, raw_contents>>))
    /\ lastStatic' = <<content_type, raw_contents, FALSE>>
    /\ ret' = <<"unit">>
    /\ UNCHANGED <<nServers, fanout, closed, queue, stream, joined>>

\* -------------------------------------------------------------- queries
\* A content_type that never returns the stored type.
content_type_AlwaysNone(c) == <<>>

\* Content::content_type
content_type(c) == IF c.tag = "Dynamic" THEN <<>> ELSE c.content_type

\* An is_empty that does not ask the server for its connections.
is_empty_IgnoresClients(c) ==
    c.tag = "Dynamic" /\ c.title = "" /\ c.body = ""

\* Content::is_empty
is_empty(c) ==
    IF c.tag = "Dynamic" /\ c.title = "" /\ c.body = ""
    THEN connections(c.updates) = 0
    ELSE FALSE

get_content_type ==
    /\ Idle
    /\ nops' = nops + 1
    /\ call' = Enter("content_type", <<>>)
    /\ ret' = <<"Option", content_type(content)>>
    /\ UNCHANGED <<content, nServers, fanout, closed, queue, stream, pending,
                   emitted, joined, lastStatic>>

test_is_empty ==
    /\ Idle
    /\ nops' = nops + 1
    /\ call' = Enter("is_empty", <<>>)
    /\ ret' = <<"bool", is_empty(content)>>
    /\ UNCHANGED <<content, nServers, fanout, closed, queue, stream, pending,
                   emitted, joined, lastStatic>>

\* ---------------------------------------------------- fan-out transport
\* A transport that serves the sinks one after the other, lowest first.
Deliver_OneByOne(s) ==
    /\ s \in pending
    /\ \A t \in pending : s <= t
    /\ Len(queue[s]) < UPDATE_BUFFER_SIZE
    /\ queue' = [queue EXCEPT ![s] = Append(@, call.ev)]
    /\ pending' = pending \ {s}
    /\ call' = Resume(pending \ {s})
    /\ UNCHANGED <<content, nServers, fanout, closed, stream, emitted, joined,
                   lastStatic, ret, nops>>

\* The send in progress puts its frame in the queue of sink s, which has room.
Deliver(s) ==
    /\ s \in pending
    /\ Len(queue[s]) < UPDATE_BUFFER_SIZE
    /\ queue' = [queue EXCEPT ![s] = Append(@, call.ev)]
    /\ pending' = pending \ {s}
    /\ call' = Resume(pending \ {s})
    /\ UNCHANGED <<content, nServers, fanout, closed, stream, emitted, joined,
                   lastStatic, ret, nops>>

\* A transport that writes to a response only once its Body was returned.
Drain_OnceHanded(s) ==
    /\ s \in Handed
    /\ queue[s] # <<>>
    /\ stream' = [stream EXCEPT ![s] = Append(@, Head(queue[s]))]
    /\ queue' = [queue EXCEPT ![s] = Tail(@)]
    /\ UNCHANGED <<content, nServers, fanout, closed, call, pending, emitted,
                   joined, lastStatic, ret, nops>>

\* The oldest frame queued for sink s is written to its response stream.
Drain(s) ==
    /\ queue[s] # <<>>
    /\ stream' = [stream EXCEPT ![s] = Append(@, Head(queue[s]))]
    /\ queue' = [queue EXCEPT ![s] = Tail(@)]
    /\ UNCHANGED <<content, nServers, fanout, closed, call, pending, emitted,
                   joined, lastStatic, ret, nops>>

\* The viewer of channel s goes away: the sink is closed and is no longer
\* delivered to nor counted.
Disconnect(s) ==
    /\ s \in Handed \ closed
    /\ closed' = closed \cup {s}
    /\ queue' = [queue EXCEPT ![s] = <<>>]
    /\ pending' = pending \ {s}
    /\ call' = Resume(pending \ {s})
    /\ UNCHANGED <<content, nServers, fanout, stream, emitted, joined,
                   lastStatic, ret, nops>>

\* -------------------------------------------------------- specification
Next ==
    \/ \E v \in Strings : set_title(v)
    \/ set_title_loop
    \/ \E v \in Strings : set_body(v)
    \/ set_body_loop
    \/ update_stream
    \/ update_stream_body
    \/ send_heartbeat
    \/ refresh
    \/ \E a \in StaticArgs : set_static(a[1], a[2])
    \/ get_content_type
    \/ test_is_empty
    \/ \E s \in Subs : Deliver(s)
    \/ \E s \in Subs : Drain(s)
    \/ \E s \in Subs : Disconnect(s)

Spec == Init /\ [][Next]_vars

\* The transport keeps draining every queue and the writer keeps running.
Fairness ==
    /\ \A s \in Subs : WF_vars(Drain(s))
    /\ \A s \in Subs : WF_vars(Deliver(s))
    /\ WF_vars(set_title_loop)
    /\ WF_vars(set_body_loop)
    /\ WF_vars(update_stream_body)

FairSpec == Spec /\ Fairness

TypeOK ==
    /\ content.tag \in {"Dynamic", "Static"}
    /\ \A s \in Subs : Len(queue[s]) <= UPDATE_BUFFER_SIZE
    /\ nops <= MaxOps

\* ----------------------------------------------------------- observation
\* The frames sink s has been given, in order: those already written to its
\* response stream, then the one still queued.
Delivered(s) == stream[s] \o queue[s]

\* The frames given to server g after the first n of the history, in order.
SentTo(g, n) ==
    LET later == SubSeq(emitted, n + 1, Len(emitted))
        on == SelectSeq(later, LAMBDA e : e.server = g)
    IN  [i \in 1..Len(on) |-> on[i].ev]

\* How many frames of the given types server g was given after the first n.
CountTo(g, n, types) ==
    Cardinality({i \in (n + 1)..Len(emitted) :
                    emitted[i].server = g /\ emitted[i].ev.event_type \in types})

\* The same count over every server.
CountAll(n, types) ==
    Cardinality({i \in (n + 1)..Len(emitted) : emitted[i].ev.event_type \in types})

FieldTypes(f) == {f, "clear-" \o f}

Setter(f) == "set_" \o f

\* The last two calls were set_<f>(v), set_<f>(v) and the second has returned.
Twice(f) ==
    /\ call.pc = "done"
    /\ call.op = Setter(f)
    /\ call.prev.op = Setter(f)
    /\ call.prev.arg = call.arg

\* The stored <f> before the first of the last two calls, "" for a static page.
StoredBefore(f) ==
    IF call.prev.pre.tag = "Dynamic" THEN call.prev.pre[f] ELSE ""

\* C1 (as amended): of two calls set_title(v), set_title(v) in a row (and of
\* set_body likewise) the second emits nothing and leaves the content as it
\* was, and the two together emit one title/clear-title event when the value
\* stored before them differed from v, and none when it already was v; a
\* subscriber connected before them is sent that one event only when the
\* page was dynamic before the first call.
C1_SecondCallNoOp ==
    \A f \in {"title", "body"} :
        Twice(f) =>
            /\ Len(emitted) = call.from
            /\ content = call.pre
            /\ content.tag = "Dynamic" /\ content[f] = call.arg[1]
            /\ CountAll(call.prev.from, FieldTypes(f))
                 = IF StoredBefore(f) # call.arg[1] THEN 1 ELSE 0
            /\ \A s \in Subs :
                 fanout[s] # 0 =>
                    CountTo(fanout[s], call.prev.from, FieldTypes(f))
                      = IF /\ call.prev.pre.tag = "Dynamic"
                           /\ call.prev.pre.updates = fanout[s]
                           /\ call.prev.pre[f] # call.arg[1]
                        THEN 1 ELSE 0

\* C1 as stated: the two calls always emit exactly one event in total.
C1_ExactlyOneEvent ==
    \A f \in {"title", "body"} :
        Twice(f) => CountAll(call.prev.from, FieldTypes(f)) = 1

\* Two set_title("x") in a row on a page with a connected subscriber, which
\* has been sent the one title event.
C1_Witness ==
    /\ Twice("title")
    /\ call.arg = <<"x">>
    /\ CountAll(call.prev.from, FieldTypes("title")) = 1
    /\ \E s \in Clients(content.updates) :
          /\ joined[s][3] < call.prev.from
          /\ Len(Delivered(s)) >= 3
          /\ Delivered(s)[Len(Delivered(s))] = [event_type |-> "title", data |-> "x"]

\* The event the claims expect for a stored title T, and for a stored body B.
IsTitleEventFor(e, T) ==
    IF T # "" THEN e.event_type = "title" /\ e.data = T
    ELSE e.event_type = "clear-title"

IsBodyEventFor(e, B) ==
    IF B # "" THEN e.event_type = "body" /\ e.data = B
    ELSE e.event_type = "clear-body"

\* C2: the first frame a subscriber is given is the title event for the
\* title stored when it subscribed and the second the body event for the body
\* stored then; they are the two events its own update_stream emitted, so
\* nothing emitted earlier reaches it and every later event comes after them;
\* when update_stream returns the stream, both have been given to it.
C2_PrimingFirst ==
    /\ \A s \in Subs :
          fanout[s] # 0 =>
             LET d == Delivered(s)
                 j == joined[s][3]
             IN  /\ Len(d) >= 1 => /\ IsTitleEventFor(d[1], joined[s][1])
                                   /\ emitted[j + 1] = [server |-> fanout[s], ev |-> d[1]]
                 /\ Len(d) >= 2 => /\ IsBodyEventFor(d[2], joined[s][2])
                                   /\ emitted[j + 2] = [server |-> fanout[s], ev |-> d[2]]
    /\ (call.op = "update_stream" /\ call.pc = "done" /\ ret[1] = "Some") =>
          (ret[2] \notin closed => Len(Delivered(ret[2])) = 2)

\* A subscriber that joined a page titled "x" with no body and has read its
\* two priming events and the event of a later mutation.
C2_Witness ==
    \E s \in Subs :
        /\ fanout[s] # 0
        /\ joined[s][1] = "x" /\ joined[s][2] = ""
        /\ Len(stream[s]) >= 3
        /\ stream[s][1] = [event_type |-> "title", data |-> "x"]
        /\ stream[s][2].event_type = "clear-body"

IsPrefix(a, b) == Len(a) <= Len(b) /\ \A i \in 1..Len(a) : a[i] = b[i]

\* C3: the frames a subscriber has been given are, in order and without
\* repetition, a prefix of the frames the cell gave to that subscriber's
\* server after the subscriber was registered.
C3_InOrder ==
    \A s \in Subs :
        fanout[s] # 0 => IsPrefix(Delivered(s), SentTo(fanout[s], joined[s][3]))

\* A subscriber that has read four frames, the last two from two later
\* mutating calls with different events.
C3_Witness ==
    \E s \in Subs :
        /\ Len(stream[s]) >= 4
        /\ stream[s][3] # stream[s][4]
        /\ stream[s][3].event_type # "" /\ stream[s][4].event_type # ""

\* C4: during and after set_static(t, b) the content is Static{t, b}; on a
\* dynamic page the call gives exactly one frame, a refresh, to the displaced
\* server, and when it returns that refresh is the last frame given to every
\* subscriber of the displaced server; on a static page it emits nothing.
C4_SetStatic ==
    call.op = "set_static" =>
        /\ content = [tag |-> "Static", content_type |-> call.arg[1],
                      raw_contents |-> call.arg[2]]
        /\ IF call.pre.tag = "Dynamic"
           THEN /\ Len(emitted) = call.from + 1
                /\ emitted[Len(emitted)].server = call.pre.updates
                /\ emitted[Len(emitted)].ev.event_type = "refresh"
                /\ call.pc = "done" =>
                     \A s \in Clients(call.pre.updates) :
                        LET d == Delivered(s)
                        IN  /\ d = SentTo(fanout[s], joined[s][3])
                            /\ d[Len(d)].event_type = "refresh"
                            /\ CountTo(fanout[s], call.from, {"refresh"}) = 1
           ELSE Len(emitted) = call.from /\ call.pc = "done"

\* set_static has returned on a page that had two subscribers, both of which
\* have read the refresh.
C4_Witness ==
    /\ call.op = "set_static" /\ call.pc = "done"
    /\ call.pre.tag = "Dynamic"
    /\ Cardinality(Clients(call.pre.updates)) = 2
    /\ \A s \in Clients(call.pre.updates) :
          /\ stream[s] # <<>>
          /\ stream[s][Len(stream[s])].event_type = "refresh"

\* C5: a call of update_stream on a static page returns None at once, adds
\* no client, emits nothing and leaves the content as it is.
C5_StaticSubscribe ==
    [][(content.tag = "Static" /\ nops' = nops + 1 /\ call'.op = "update_stream")
         => /\ ret' = <<"None">>
            /\ call'.pc = "done"
            /\ UNCHANGED <<content, nServers, fanout, closed, queue, stream,
                           pending, emitted, joined>>]_vars

\* update_stream has returned None right after a set_static that displaced a
\* page with a subscriber.
C5_Witness ==
    /\ call.op = "update_stream" /\ call.pc = "done"
    /\ call.prev.op = "set_static"
    /\ call.prev.pre.tag = "Dynamic"
    /\ call.pre.tag = "Static" /\ content = call.pre
    /\ content.content_type # <<>>
    /\ ret = <<"None">>
    /\ \E s \in Subs : fanout[s] # 0

\* The returned content type the history predicts, overwritten or not.
StaticType == IF lastStatic = <<>> THEN <<>> ELSE lastStatic[1]

\* C6 (as amended): content_type returns None after new(), returns the type
\* given to the most recent set_static as long as no set_title or set_body
\* was called after it, returns None once one was, and changes nothing.
C6_MediaType ==
    (call.op = "content_type" /\ call.pc = "done") =>
        /\ ret = <<"Option",
                   IF lastStatic # <<>> /\ lastStatic[3] THEN <<>> ELSE StaticType>>
        /\ content = call.pre
        /\ Len(emitted) = call.from

\* C6 as stated: after any sequence holding a set_static, content_type
\* returns the type given to the most recent one.
C6_MostRecentStatic ==
    (call.op = "content_type" /\ call.pc = "done") => ret = <<"Option", StaticType>>

\* content_type returns Some("text/css") right after a set_static that
\* replaced static content of no type.
C6_Witness ==
    /\ call.op = "content_type" /\ call.pc = "done"
    /\ ret = <<"Option", <<"text/css">>>>
    /\ call.prev.op = "set_static"
    /\ call.prev.pre.tag = "Static" /\ call.prev.pre.content_type = <<>>

Other(f) == IF f = "title" THEN "body" ELSE "title"

\* C7: when set_title(v) (or set_body(v)) has returned right after a
\* set_static, the page is dynamic on a server no channel was ever added to,
\* the field set is v, the other field is "", content_type is None, and the
\* loop ran twice.
C7_RoundTrip ==
    \A f \in {"title", "body"} :
        (call.pc = "done" /\ call.op = Setter(f) /\ call.prev.op = "set_static") =>
            /\ content.tag = "Dynamic"
            /\ content[f] = call.arg[1]
            /\ content[Other(f)] = ""
            /\ {s \in Subs : fanout[s] = content.updates} = {}
            /\ connections(content.updates) = 0
            /\ content_type(content) = <<>>
            /\ call.iters = 2

\* set_title("x") has returned after a set_static that displaced a page
\* with a subscriber.
C7_Witness ==
    /\ call.pc = "done" /\ call.op = "set_title" /\ call.arg = <<"x">>
    /\ call.prev.op = "set_static"
    /\ call.prev.pre.tag = "Dynamic"
    /\ Clients(call.prev.pre.updates) # {}
    /\ content.title = "x"

\* C8: is_empty returns true exactly when the page it was called on was
\* dynamic with an empty title, an empty body and no open sink on its
\* server, and it changes nothing: true on a new page, false right after
\* set_title of a non-empty title, false on a static page.
C8_IsEmpty ==
    (call.op = "is_empty" /\ call.pc = "done") =>
        /\ ret = <<"bool", /\ call.pre.tag = "Dynamic"
                           /\ call.pre.title = ""
                           /\ call.pre.body = ""
                           /\ call.preCount = 0>>
        /\ content = call.pre
        /\ Len(emitted) = call.from
        /\ call.prev.op = "new" => ret[2]
        /\ (call.prev.op = "set_title" /\ call.prev.arg # <<"">>) => ~ret[2]
        /\ call.pre.tag = "Static" => ~ret[2]

\* is_empty returns true after set_title("") undid a title "x".
C8_Witness ==
    /\ call.op = "is_empty" /\ call.pc = "done"
    /\ ret = <<"bool", TRUE>>
    /\ call.prev.op = "set_title" /\ call.prev.arg = <<"">>
    /\ call.prev.pre.tag = "Dynamic" /\ call.prev.pre.title = "x"

\* The value an event carries: nothing for a clear event.
Carried(e) == IF e.event_type \in {"clear-title", "clear-body"} THEN "" ELSE e.data

\* The value carried by the last <f> event given to a server in S, "" if none.
LastBroadcast(f, S) ==
    LET idx == {i \in 1..Len(emitted) :
                   /\ emitted[i].ev.event_type \in FieldTypes(f)
                   /\ emitted[i].server \in S}
    IN  IF idx = {} THEN ""
        ELSE Carried(emitted[CHOOSE i \in idx : \A j \in idx : j <= i].ev)

\* C9 (as amended): while the page is dynamic, its title is the value of the
\* last title/clear-title event given to its current server, and "" if that
\* server was given none; likewise its body.
C9_LastBroadcast ==
    content.tag = "Dynamic" =>
        /\ content.title = LastBroadcast("title", {content.updates})
        /\ content.body = LastBroadcast("body", {content.updates})

\* C9 as stated: the last event the cell gave to any of its servers.
C9_LastBroadcastEver ==
    content.tag = "Dynamic" =>
        /\ content.title = LastBroadcast("title", 1..nServers)
        /\ content.body = LastBroadcast("body", 1..nServers)

\* A page made dynamic again and titled "x" on its second server, whose first
\* server was last given the title "y".
C9_Witness ==
    /\ content.tag = "Dynamic" /\ content.updates = 2
    /\ content.title = "x"
    /\ LastBroadcast("title", {2}) = "x"
    /\ LastBroadcast("title", {1}) = "y"

Mutating == {"set_title", "set_body", "set_static", "refresh"}

\* C10: under fair scheduling of the transport and the writer, every call of
\* set_title, set_body, set_static or refresh returns; the loop of set_title
\* and set_body never runs more than two iterations, and when such a call
\* has returned the page is dynamic and holds the value it was given.
C10_AlwaysReturns ==
    /\ [](call.iters <= 2)
    /\ [](\A f \in {"title", "body"} :
            (call.op = Setter(f) /\ call.pc = "done") =>
                /\ call.iters \in {1, 2}
                /\ content.tag = "Dynamic" /\ content[f] = call.arg[1])
    /\ (call.op \in Mutating /\ call.pc # "done") ~> (call.pc = "done")

\* set_title is suspended in its send: a sink it still owes the event to has
\* a full queue.
C10_Witness ==
    /\ call.op = "set_title" /\ call.pc = "send"
    /\ \E s \in pending : Len(queue[s]) = UPDATE_BUFFER_SIZE

\* The event the diff-and-notify rule prescribes for the new value v of <f>.
IsFieldEventFor(e, f, v) ==
    IF v # "" THEN e = [event_type |-> f, data |-> v]
    ELSE e = [event_type |-> "clear-" \o f, data |-> "."]

\* C11: a set_title(v) (set_body(v)) called on a dynamic page whose stored
\* title (body) differs from v stores v, changes nothing else, and gives the
\* page's server exactly one event: title (body) with data v if v is not
\* empty, clear-title (clear-body) with the one-character data "." if it is;
\* when the call returns, that event is the last frame given to every
\* subscriber of the page.  When the stored value equals v the call stores
\* nothing and emits nothing.
C11_DiffAndNotify ==
    \A f \in {"title", "body"} :
        (call.op = Setter(f) /\ call.pre.tag = "Dynamic") =>
            IF call.pre[f] # call.arg[1]
            THEN /\ content = [call.pre EXCEPT ![f] = call.arg[1]]
                 /\ Len(emitted) = call.from + 1
                 /\ emitted[Len(emitted)].server = content.updates
                 /\ IsFieldEventFor(emitted[Len(emitted)].ev, f, call.arg[1])
                 /\ call.pc = "done" =>
                      \A s \in Clients(content.updates) :
                         /\ Delivered(s) = SentTo(fanout[s], joined[s][3])
                         /\ IsFieldEventFor(Delivered(s)[Len(Delivered(s))],
                                            f, call.arg[1])
            ELSE /\ content = call.pre
                 /\ Len(emitted) = call.from
                 /\ call.pc = "done"

\* set_title("") has returned on a page titled "x" whose subscriber has read
\* the clear-title event.
C11_Witness ==
    /\ call.op = "set_title" /\ call.pc = "done" /\ call.arg = <<"">>
    /\ call.pre.tag = "Dynamic" /\ call.pre.title = "x"
    /\ \E s \in Clients(content.updates) :
          /\ Len(stream[s]) >= 3
          /\ stream[s][Len(stream[s])] = [event_type |-> "clear-title", data |-> "."]

\* C12: a set_title or set_body called on a static page emits no refresh,
\* and whatever it emits goes to a server no channel was ever added to, so
\* that the send has no sink to reach: no subscriber is given any frame.
C12_SilentConversion ==
    (call.op \in {"set_title", "set_body"} /\ call.pre.tag = "Static") =>
        /\ CountAll(call.from, {"refresh"}) = 0
        /\ pending = {}
        /\ \A i \in (call.from + 1)..Len(emitted) :
              {s \in Subs : fanout[s] = emitted[i].server} = {}
        /\ call.pc = "done" =>
              Len(emitted) = call.from + (IF call.arg[1] # "" THEN 1 ELSE 0)

\* set_title("x") has returned on a static page that had displaced a page
\* with a subscriber; the title event went to the new server.
C12_Witness ==
    /\ call.op = "set_title" /\ call.pc = "done" /\ call.arg = <<"x">>
    /\ call.pre.tag = "Static"
    /\ Len(emitted) = call.from + 1
    /\ \E s \in Subs : fanout[s] # 0 /\ s \notin closed

\* Channel s was added to a server that is no longer the page's.
Orphan(s) ==
    /\ fanout[s] # 0
    /\ content.tag = "Dynamic" => content.updates # fanout[s]

\* C13: a subscriber whose server was displaced stays displaced for good:
\* the last frame its server was ever given is a refresh, no step gives that
\* server anything more, and the subscriber is never again among the clients
\* of the page's server.
C13_OrphanedForGood ==
    [][\A s \in Subs :
          Orphan(s) =>
             /\ Orphan(s)'
             /\ SentTo(fanout[s], joined[s][3])' = SentTo(fanout[s], joined[s][3])
             /\ LET e == SentTo(fanout[s], joined[s][3])
                IN  e[Len(e)].event_type = "refresh"
             /\ (content.tag = "Dynamic")' => s \notin Clients(content.updates)']_vars

\* A subscriber displaced by set_static has read the refresh, and the page,
\* dynamic again on its second server, has emitted a title event since.
C13_Witness ==
    \E s \in Subs :
        /\ Orphan(s) /\ s \notin closed
        /\ stream[s][Len(stream[s])].event_type = "refresh" /\ queue[s] = <<>>
        /\ content.tag = "Dynamic" /\ content.title = "x"
        /\ emitted[Len(emitted)] =
              [server |-> content.updates, ev |-> [event_type |-> "title", data |-> "x"]]

\* C14: refresh leaves the content as it is; on a dynamic page it gives the
\* page's server exactly one frame, a refresh event, which on return is the
\* last frame given to every subscriber, and the step that calls it changes
\* neither the clients nor the servers; on a static page it emits nothing.
C14_Refresh ==
    /\ [](call.op = "refresh" =>
            /\ content = call.pre
            /\ IF call.pre.tag = "Dynamic"
               THEN /\ Len(emitted) = call.from + 1
                    /\ emitted[Len(emitted)] =
                          [server |-> content.updates,
                           ev |-> [event_type |-> "refresh", data |-> "."]]
                    /\ call.pc = "done" =>
                         \A s \in Clients(content.updates) :
                            /\ Delivered(s) = SentTo(fanout[s], joined[s][3])
                            /\ Delivered(s)[Len(Delivered(s))].event_type = "refresh"
               ELSE Len(emitted) = call.from /\ call.pc = "done")
    /\ [][(nops' = nops + 1 /\ call'.op = "refresh") =>
            UNCHANGED <<content, nServers, fanout, closed, queue, stream>>]_vars

\* refresh has returned on a page with two subscribers, which have both read
\* the refresh.
C14_Witness ==
    /\ call.op = "refresh" /\ call.pc = "done"
    /\ content.tag = "Dynamic"
    /\ Cardinality(Clients(content.updates)) = 2
    /\ \A s \in Clients(content.updates) :
          /\ queue[s] = <<>>
          /\ stream[s][Len(stream[s])].event_type = "refresh"

NamedTypes == {"title", "clear-title", "body", "clear-body", "refresh"}

\* C15: send_heartbeat returns None on a static page and Some(n) on a
\* dynamic one, n the number of open sinks of the page's server when it was
\* called; it leaves the content as it is and gives the server no frame
\* that carries an event type.
C15_Heartbeat ==
    call.op = "send_heartbeat" =>
        /\ content = call.pre
        /\ CountAll(call.from, NamedTypes) = 0
        /\ \A i \in (call.from + 1)..Len(emitted) : emitted[i].ev.event_type = ""
        /\ ret = IF call.pre.tag = "Static" THEN <<"None">>
                 ELSE <<"Some", call.preCount>>
        /\ call.pre.tag = "Static" => Len(emitted) = call.from /\ call.pc = "done"

\* send_heartbeat has returned Some(2) on a page with two subscribers.
C15_Witness ==
    /\ call.op = "send_heartbeat" /\ call.pc = "done"
    /\ ret = <<"Some", 2>>
    /\ Len(emitted) = call.from + 1
    /\ \E s \in Subs : stream[s] # <<>> /\ stream[s][Len(stream[s])].event_type = ""

\* C16: update_stream on a dynamic page leaves the content as it is and
\* gives the page's server the title event and then the body event of the
\* stored title and body; when it returns, these are the last two frames
\* given to every subscriber of the page, the ones registered before the
\* call included, which so hold at least four frames.
C16_PrimingToAll ==
    (call.op = "update_stream" /\ call.pre.tag = "Dynamic") =>
        /\ content = call.pre
        /\ Len(emitted) \in {call.from + 1, call.from + 2}
        /\ emitted[call.from + 1].server = content.updates
        /\ IsTitleEventFor(emitted[call.from + 1].ev, content.title)
        /\ Len(emitted) = call.from + 2 =>
              /\ emitted[call.from + 2].server = content.updates
              /\ IsBodyEventFor(emitted[call.from + 2].ev, content.body)
        /\ call.pc = "done" =>
              /\ Len(emitted) = call.from + 2
              /\ \A s \in Clients(content.updates) :
                    LET d == Delivered(s)
                    IN  /\ d = SentTo(fanout[s], joined[s][3])
                        /\ Len(d) >= 2
                        /\ IsTitleEventFor(d[Len(d) - 1], content.title)
                        /\ IsBodyEventFor(d[Len(d)], content.body)
                        /\ joined[s][3] < call.from => Len(d) >= 4

\* The second update_stream on a page titled "x" has returned and the
\* first subscriber has read the title and body events a second time.
C16_Witness ==
    /\ call.op = "update_stream" /\ call.pc = "done" /\ ret = <<"Some", 2>>
    /\ content.tag = "Dynamic" /\ content.title = "x"
    /\ 1 \in Clients(content.updates)
    /\ Len(stream[1]) = 4
    /\ stream[1][1] = stream[1][3] /\ stream[1][2] = stream[1][4]
    /\ stream[1][3] = [event_type |-> "title", data |-> "x"]

\* C17: no queue ever holds more than one frame, what a sink has been
\* given is always the frames its server was given since it was added, in
\* order and short of at most the one being sent, and a sink that keeps
\* being served and drained is given every frame owed to it and has it
\* written to its stream, whether or not any other sink is ever drained.
C17_SlowSubscriber ==
    /\ [](\A s \in Subs : Len(queue[s]) <= 1)
    /\ [](\A s \in Subs :
            (fanout[s] # 0 /\ s \notin closed) =>
               LET d == Delivered(s)
                   e == SentTo(fanout[s], joined[s][3])
               IN  /\ IsPrefix(d, e)
                   /\ Len(d) >= Len(e) - (IF s \in pending THEN 1 ELSE 0))
    /\ \A s \in Subs :
          (WF_vars(Deliver(s)) /\ WF_vars(Drain(s))) =>
             /\ (s \in pending) ~> (s \notin pending)
             /\ (queue[s] # <<>>) ~> (queue[s] = <<>>)

\* A send still owes its frame to a sink whose queue is full and whose
\* stream is empty, while another sink has already read that frame.
C17_Witness ==
    \E k \in pending :
        /\ call.pc = "send"
        /\ Len(queue[k]) = 1 /\ stream[k] = <<>>
        /\ \E s \in Clients(fanout[k]) \ pending :
              /\ queue[s] = <<>>
              /\ Len(stream[s]) >= 3
              /\ stream[s][Len(stream[s])] = call.ev

\* The stored state of a content value: all of it but the server.
Stored(c) ==
    IF c.tag = "Dynamic" THEN <<"Dynamic", c.title, c.body>>
    ELSE <<"Static", c.content_type, c.raw_contents>>

\* The stored state op(arg) is to produce from the stored state v, by the
\* operations' descriptions alone.
Expected(v, op, arg) ==
    LET live == IF v[1] = "Static" THEN <<"Dynamic", "", "">> ELSE v
    IN  CASE op = "set_static" -> <<"Static", arg[1], arg[2]>>
          [] op = "set_title" -> <<"Dynamic", arg[1], live[3]>>
          [] op = "set_body" -> <<"Dynamic", live[2], arg[1]>>
          [] OTHER -> v

\* C18: the stored state is a function of the calls alone: every call
\* starts from the stored state the previous one left, no step of the
\* transport or of a subscriber changes it, and from the moment the call has
\* applied its change (and so when it returns) it is the state that the
\* operation, its argument and the state before determine, whatever the
\* clients, their queues and the sends still in progress.
C18_NoFeedback ==
    /\ [](IF call.pc = "loop"
          THEN Stored(content) = <<"Dynamic", "", "">>
          ELSE Stored(content) = Expected(Stored(call.pre), call.op, call.arg))
    /\ [][/\ nops' = nops + 1 => call'.pre = content
          /\ (nops' = nops /\ call.pc # "loop") => content' = content]_vars

\* set_body("x") has returned and stored "x" on a page with one subscriber
\* that went away and one whose frame is still queued.
C18_Witness ==
    /\ call.op = "set_body" /\ call.pc = "done" /\ call.arg = <<"x">>
    /\ content.tag = "Dynamic" /\ content.body = "x"
    /\ \E s \in closed : fanout[s] = content.updates
    /\ \E s \in Clients(content.updates) : queue[s] # <<>>

\* The value of <f> a viewer shows after the frames in d: that of the last
\* <f> or clear-<f> event among them, "" if there is none.
Shown(d, f) ==
    LET idx == {i \in 1..Len(d) : d[i].event_type \in FieldTypes(f)}
    IN  IF idx = {} THEN ""
        ELSE Carried(d[CHOOSE i \in idx : \A j \in idx : j <= i])

\* C19: between calls, a subscriber of a dynamic page whose queue is empty
\* shows the stored title and the stored body.
C19_ViewInSync ==
    (call.pc = "done" /\ content.tag = "Dynamic") =>
        \A s \in Clients(content.updates) :
            queue[s] = <<>> =>
                /\ Shown(stream[s], "title") = content.title
                /\ Shown(stream[s], "body") = content.body

\* A subscriber has read its priming events and those of a later set_title
\* and set_body and shows the title "x" and a body.
C19_Witness ==
    /\ call.pc = "done" /\ content.tag = "Dynamic"
    /\ content.title = "x" /\ content.body # ""
    /\ \E s \in Clients(content.updates) :
          /\ queue[s] = <<>>
          /\ Len(stream[s]) = 4
          /\ stream[s][1].event_type = "clear-title"
          /\ Shown(stream[s], "title") = "x"

\* update_stream is in progress and has not returned the Body of channel s.
Subscribing(s) ==
    /\ call.op = "update_stream" /\ call.pc # "done"
    /\ call.local # <<>> /\ call.local[1] = s

====
